---- MODULE Spec2Model ----
(***************************************************************************)
(* Model of the resumable transfer engine of sentinelDL.py:                *)
(* SciHubClient (get_token, renew, download) and the caller loop of        *)
(* __main__, against a byte-range honouring server and a local file system.*)
(*                                                                         *)
(* A file is a sequence of segments [src, off, len]: `len` bytes taken at  *)
(* offset `off` of the body named `src` (a product id, or "err" for the    *)
(* body of an error response).  Adjacent segments that continue each other *)
(* are merged, so a file equals the first k bytes of product i exactly     *)
(* when it is <<[src |-> i, off |-> 0, len |-> k]>> (or empty for k = 0).  *)
(***************************************************************************)
EXTENDS Integers, Sequences, FiniteSets, TLC

\* ---------------------------------------------------------------- bounds
MaxCalls == 2        \* download() calls made by the caller loop
MaxTime  == 700      \* the clock jumps (Tick) only while it stays below this
ErrLen   == 100      \* body length of an error (4xx/5xx) response
MaxOutages == 1      \* error statuses (5xx) the server answers in one run
MaxClock == 2000     \* last instant at which renew is evaluated on its own
MaxConcFaults == 2   \* connections that fail while two threads download
MaxMs    == 6        \* the clock of the progress statistics stops here (ms)

\* ------------------------------------------------------- program constants
MiB        == 1048576
ChunkSize  == 1048576
RenewAge   == 600
SleepSecs  == 30
MaxTryouts == 5

\* ------------------------------------------------------------ environment
Ids     == {"A", "B"}
Threads == {1, 2}
\* server side: full size of each product
Total == [i \in Ids |-> IF i = "A" THEN 3 * MiB ELSE MiB + (MiB \div 2)]
\* clock jumps between steps of the program
TickSteps == {RenewAge + 1}
NoRange == 0 - 1    \* no Range header
NoLimit == 0 - 1    \* the number of failing connections is not limited
Unbound == 0 - 1    \* a local that was never assigned

Min(a, b) == IF a < b THEN a ELSE b

\* ------------------------------------------------------------ file system
NoFile == [exists |-> FALSE, data |-> <<>>]
Prefix(i, k) == [exists |-> TRUE,
                 data |-> IF k = 0 THEN <<>> ELSE <<[src |-> i, off |-> 0, len |-> k]>>]
Full(i) == Prefix(i, Total[i])

RECURSIVE SumLen(_)
SumLen(s) == IF s = <<>> THEN 0 ELSE s[1].len + SumLen(Tail(s))

\* os.path.exists / os.path.getsize
exists(f)  == f.exists
getsize(f) == SumLen(f.data)

\* a write that opens the file with 'wb': what was on disk is lost
AppendBytes_Truncating(f, seg) == [exists |-> TRUE, data |-> <<seg>>]

\* open(DLname,'ab'); outfile.write(data): creates the file, appends at its end
AppendBytes(f, seg) ==
    LET d == f.data
        n == Len(d)
    IN  [exists |-> TRUE,
         data |-> IF n > 0 /\ d[n].src = seg.src /\ d[n].off + d[n].len = seg.off
                  THEN [d EXCEPT ![n].len = d[n].len + seg.len]
                  ELSE Append(d, seg)]

\* the file holds the first bytes of product i and nothing else
IsPrefixOf(f, i) ==
    /\ f.exists
    /\ \/ f.data = <<>>
       \/ /\ Len(f.data) = 1
          /\ f.data[1].src = i
          /\ f.data[1].off = 0
          /\ f.data[1].len <= Total[i]

\* ---------------------------------------------------------------- server
NoResp == [status |-> 0, src |-> "err", off |-> 0, len |-> 0, pos |-> 0,
           hdr |-> "ok", consumed |-> FALSE, closed |-> FALSE]

\* The answer of the server to GET url(i) with the given Range header.
\* net = "ok": the server honours the range (200 whole body, 206 remainder,
\* 416 when the offset is not inside the body); net = "http5xx": it answers
\* with an error status and an error body.  hdr tells which of the
\* Content-Disposition / Content-Length headers the answer carries.
Respond(i, range, net, hdr) ==
    IF net = "http5xx"
    THEN [NoResp EXCEPT !.status = 503, !.len = ErrLen]
    ELSE IF range = NoRange
    THEN [NoResp EXCEPT !.status = 200, !.src = i, !.len = Total[i], !.hdr = hdr]
    ELSE IF range < Total[i]
    THEN [NoResp EXCEPT !.status = 206, !.src = i, !.off = range,
                        !.len = Total[i] - range, !.hdr = hdr]
    ELSE [NoResp EXCEPT !.status = 416, !.len = ErrLen]

\* a raise_for_status that lets client errors (4xx) pass
raise_for_status_5xxOnly(r) == r.status >= 500

\* Response.raise_for_status(): raises for 4xx and 5xx
raise_for_status(r) == r.status >= 400

NetOutcomes  == {"ok", "neterr", "http5xx"}
HdrOutcomes  == {"ok", "noname", "nosize"}
ProvOutcomes == {"ok", "fail"}

VARIABLES
    client,     \* SciHubClient: token, tokentime, headers, session
    now,        \* datetime.utcnow(), seconds
    files,      \* the data folder: file of each product name
    pc,         \* position of each thread in download()
    loc,        \* locals of download(): Id, DLf, DLsize, fsize, tryouts
    obs,        \* what each call did so far (requests, chunks, result, ...)
    threads,    \* the threads that call download()
    calls,      \* number of download() calls made so far
    lastRenew,  \* the last evaluation of the renew property
    outages,    \* number of 5xx answers the server has given
    faultsLeft, \* connections that may still fail (NoLimit: any number)
    stats       \* the progress statistics of a stream: clocks, rate, ETA

vars == <<client, now, files, pc, loc, obs, threads, calls, lastRenew, outages,
          faultsLeft, stats>>

\* what the network can do to one request
NetChoices ==
    {n \in NetOutcomes :
        /\ (n = "http5xx") => (outages < MaxOutages)
        /\ (n = "neterr") => (faultsLeft # 0)}
Spend(failed) == faultsLeft' = IF failed /\ faultsLeft > 0 THEN faultsLeft - 1
                                                          ELSE faultsLeft
Outage(net) == /\ outages' = outages + (IF net = "http5xx" THEN 1 ELSE 0)
               /\ Spend(net = "neterr")

\* ------------------------------------------------------------ credentials
\* get_keycloak(): a fresh token (numbered) and its issue time; raises when
\* the identity service fails.
get_keycloak(c, t) == [token |-> c.token + 1, tokentime |-> t]

\* SciHubClient.get_token: new token, new headers, new requests.Session()
get_token(c, t) ==
    LET k == get_keycloak(c, t)
    IN  [token     |-> k.token,
         tokentime |-> k.tokentime,
         headers   |-> [auth |-> k.token],
         session   |-> [auth |-> k.token, range |-> NoRange]]

\* SciHubClient.renew at time t; prov is the outcome of the provider if it
\* is called.  ret is "True", "False" or "raise".
\* a renewal test that already fires at the boundary instant
renewDue_AtBoundary(c, t) == t >= c.tokentime + RenewAge

renewDue(c, t) == t > c.tokentime + RenewAge

renew(c, t, prov) ==
    IF renewDue(c, t)
    THEN IF prov = "ok"
         THEN [c |-> get_token(c, t), ret |-> "True",  called |-> TRUE]
         ELSE [c |-> c,               ret |-> "raise", called |-> TRUE]
    ELSE      [c |-> c,               ret |-> "False", called |-> FALSE]

\* one evaluation of renew: when, on which token, with what outcome
RenewRec(c, t, r) == [at |-> t, issue |-> c.tokentime, token |-> c.token,
                      ret |-> r.ret, called |-> r.called]

\* headers of a request: requests merges the session headers with the
\* headers argument of the call (the argument wins on a clash)
MergedHeaders(sess, hdrs) == [auth |-> hdrs.auth, range |-> sess.range]

\* ------------------------------------------------------------------ state
NoLoc == [Id |-> "A", DLf |-> NoResp, DLsize |-> 0, fsize |-> Unbound, tryouts |-> 0]

NoReq == [kind |-> "none", range |-> NoRange, auth |-> 0, size |-> 0]

NoObs == [ret |-> 0 - 1, retline |-> 0, raised |-> FALSE,
          reqs |-> 0, attempts |-> 0, sleeps |-> 0, chunks |-> 0, written |-> 0,
          faulted |-> FALSE, provFail |-> FALSE, lastFault |-> "none",
          startStatus |-> 0 - 1, startRange |-> NoRange, probeRange |-> NoRange,
          lastReq |-> NoReq,
          startFile |-> NoFile, prevId |-> "none", prevLine |-> 0]

\* the statistics of download(): time.time() in milliseconds, sizes in bytes;
\* a rate is the fraction num / den in bytes per millisecond
ZeroRate == [num |-> 0, den |-> 1]
NoETA    == [form |-> "N/A", h |-> 0, m |-> 0, s |-> 0, ms |-> 0]
NoStats  == [phase |-> "none", clock |-> 0, starttime |-> 0, prev |-> 0,
             steptime |-> 0, NOW |-> 0, len |-> 0, DLsize |-> 0, fsize |-> 0,
             DLt |-> 0, DLstep |-> 0, DLrate |-> ZeroRate, ETA |-> NoETA]

InitFiles(i) == IF i = "A" THEN {NoFile, Prefix(i, MiB), Full(i)}
                           ELSE {NoFile, Prefix(i, MiB)}

InitCommon ==
    /\ client = get_token([token |-> 0], 0)
    /\ now = 0
    /\ files \in {f \in [Ids -> UNION {InitFiles(i) : i \in Ids}] :
                     \A i \in Ids : f[i] \in InitFiles(i)}
    /\ pc = [p \in Threads |-> "idle"]
    /\ loc = [p \in Threads |-> NoLoc]
    /\ obs = [p \in Threads |-> NoObs]
    /\ calls = 0
    /\ lastRenew = [at |-> 0, issue |-> 0, token |-> 0, ret |-> "none", called |-> FALSE]
    /\ outages = 0

\* the program of __main__: one thread, one client
Init == InitCommon /\ threads = {1} /\ faultsLeft = NoLimit /\ stats = NoStats

\* ---------------------------------------------- how download() goes on
\* return value at a return statement (line)
Ret(p, l, o, value, line) ==
    /\ pc' = [pc EXCEPT ![p] = "done"]
    /\ loc' = [loc EXCEPT ![p] = l]
    /\ obs' = [obs EXCEPT ![p] = [o EXCEPT !.ret = value, !.retline = line]]

\* an exception leaves download(); __main__ does not catch it
Raise(p, l, o, line) ==
    /\ pc' = [pc EXCEPT ![p] = "raised"]
    /\ loc' = [loc EXCEPT ![p] = l]
    /\ obs' = [obs EXCEPT ![p] = [o EXCEPT !.raised = TRUE, !.retline = line]]

Goto(p, l, o, label) ==
    /\ pc' = [pc EXCEPT ![p] = label]
    /\ loc' = [loc EXCEPT ![p] = l]
    /\ obs' = [obs EXCEPT ![p] = o]

Crashed == \E p \in threads : pc[p] = "raised"

\* lines 203-205: an exception of the loop body is caught, the tryout counted
Catch(p, l, o) == Goto(p, [l EXCEPT !.tryouts = @ + 1], o, "retry")

\* line 174: while tryouts < 5 and (file missing or smaller than DLsize)
LoopCond(tryouts, f, DLsize) ==
    tryouts < MaxTryouts /\ (~exists(f) \/ getsize(f) < DLsize)

\* a result that is Failed whenever the tryouts are used up
Final_FailedWhenExhausted(p, l, o) ==
    LET f == files[l.Id]
    IN  IF ~exists(f)
        THEN Raise(p, l, o, 212)
        ELSE IF getsize(f) = l.DLsize /\ l.tryouts < MaxTryouts
        THEN Ret(p, l, o, 1, 213)
        ELSE Ret(p, l, o, 0, 216)

\* lines 212-216: the result is read off the size on disk
Final(p, l, o) ==
    LET f == files[l.Id]
    IN  IF ~exists(f)
        THEN Raise(p, l, o, 212)
        ELSE IF getsize(f) = l.DLsize
        THEN Ret(p, l, o, 1, 213)
        ELSE Ret(p, l, o, 0, 216)

\* lines 174-179 and 212-216, reached with locals l by a step that leaves
\* the files alone: the loop test; then either the result, or a stream
\* attempt: DLf.iter_content(), which raises StreamConsumedError on a
\* response whose body was read before
Loop(p, l, o) ==
    IF LoopCond(l.tryouts, files[l.Id], l.DLsize)
    THEN LET o1 == [o EXCEPT !.attempts = @ + 1]
         IN  IF l.DLf.consumed THEN Catch(p, l, o1) ELSE Goto(p, l, o1, "stream")
    ELSE Final(p, l, o)

\* lines 200-202: the body ended without an exception; the final statistics
\* line reads fsize, unbound when no chunk was written and no file existed
AfterBody(p, l, o) ==
    IF l.fsize = Unbound THEN Catch(p, l, o) ELSE Loop(p, l, o)

\* ---------------------------------------------------------------- actions
\* time passes
Tick ==
    /\ \E d \in TickSteps :
          /\ now + d <= MaxTime
          /\ now' = now + d
    /\ UNCHANGED <<client, files, pc, loc, obs, threads, calls, lastRenew, outages, faultsLeft, stats>>

\* __main__: for record in records['value']: client.download(record['Id'])
Call(p, i) ==
    /\ pc[p] \in {"idle", "done"}
    /\ ~Crashed
    /\ calls < MaxCalls
    /\ calls' = calls + 1
    /\ pc' = [pc EXCEPT ![p] = "start"]
    /\ loc' = [loc EXCEPT ![p] = [NoLoc EXCEPT !.Id = i]]
    /\ obs' = [obs EXCEPT ![p] = [NoObs EXCEPT
                  !.startFile = files[i],
                  !.prevId = IF pc[p] = "done" THEN loc[p].Id ELSE "none",
                  !.prevLine = IF pc[p] = "done" THEN obs[p].retline ELSE 0]]
    /\ UNCHANGED <<client, now, files, threads, lastRenew, outages, faultsLeft, stats>>

\* a request sent with the headers the client had before renew was evaluated
RequestClient_BeforeRenew(before, after) == before

\* lines 147-148: self.renew comes first, then self.headers is read
RequestClient(before, after) == after

\* download(), lines 146-156: renew, initial request, status, headers
Start(p) ==
    /\ pc[p] = "start"
    /\ \E prov \in ProvOutcomes, net \in NetChoices, hdr \in HdrOutcomes :
        LET r  == renew(client, now, prov)
            rc == RequestClient(client, r.c)
            h  == MergedHeaders(rc.session, rc.headers)
            rs == Respond(loc[p].Id, h.range, net, hdr)
            l  == loc[p]
            o1 == [obs[p] EXCEPT !.provFail = TRUE, !.faulted = TRUE]
            o2 == [obs[p] EXCEPT !.reqs = @ + 1, !.startRange = h.range,
                       !.startStatus = IF net = "neterr" THEN 0 ELSE rs.status,
                       !.lastReq = [kind |-> "start", range |-> h.range,
                                    auth |-> h.auth, size |-> 0],
                       !.faulted = (net # "ok" \/ hdr # "ok")]
        IN  /\ lastRenew' = RenewRec(client, now, r)
            /\ client' = r.c
            /\ IF r.ret = "raise"
               THEN Ret(p, l, o1, 0, 152) /\ UNCHANGED <<outages, faultsLeft>>
               ELSE /\ Outage(net)
                    /\ IF net = "neterr" \/ raise_for_status(rs)
                       THEN Ret(p, l, o2, 0, 152)
                       ELSE IF rs.hdr # "ok"
                       THEN \* None.split(...) / int(None): not caught
                            Raise(p, [l EXCEPT !.DLf = rs], o2, 154)
                       ELSE Goto(p, [l EXCEPT !.DLf = rs, !.DLsize = rs.len], o2, "probe")
    /\ UNCHANGED <<now, files, threads, calls, stats>>

\* a size test that skips only files larger than the declared size
AlreadyDownloaded_Larger(fsize, DLsize) == fsize > DLsize

\* line 160: the file on disk already has the declared size
AlreadyDownloaded(fsize, DLsize) == fsize = DLsize

\* download(), lines 157-166: existing file, close, compare, renew, Range
Probe(p) ==
    /\ pc[p] = "probe"
    /\ LET f == files[loc[p].Id]
       IN  IF ~exists(f)
           THEN /\ Loop(p, loc[p], obs[p])
                /\ UNCHANGED <<client, lastRenew>>
           ELSE LET fsize == getsize(f)
                    l == [loc[p] EXCEPT !.fsize = fsize, !.DLf.closed = TRUE]
                IN  IF AlreadyDownloaded(fsize, l.DLsize)
                    THEN /\ Ret(p, l, obs[p], 1, 162)
                         /\ UNCHANGED <<client, lastRenew>>
                    ELSE \E prov \in ProvOutcomes :
                         LET r == renew(client, now, prov)
                         IN  /\ lastRenew' = RenewRec(client, now, r)
                             /\ IF r.ret = "raise"
                                THEN /\ client' = r.c
                                     /\ Ret(p, l, [obs[p] EXCEPT !.provFail = TRUE,
                                                                 !.faulted = TRUE], 0, 171)
                                ELSE /\ client' = [r.c EXCEPT !.session.range = fsize]
                                     /\ Goto(p, l, obs[p], "probeGet")
    /\ UNCHANGED <<now, files, threads, calls, outages, faultsLeft, stats>>

\* download(), lines 167-171: reopen from the last point, check the status
ProbeGet(p) ==
    /\ pc[p] = "probeGet"
    /\ \E net \in NetChoices :
        LET h  == MergedHeaders(client.session, client.session)
            rs == Respond(loc[p].Id, h.range, net, "ok")
            o  == [obs[p] EXCEPT !.reqs = @ + 1, !.probeRange = h.range,
                      !.lastReq = [kind |-> "probe", range |-> h.range, auth |-> h.auth,
                                   size |-> getsize(files[loc[p].Id])],
                      !.faulted = @ \/ net # "ok"]
        IN  /\ Outage(net)
            /\ IF net = "neterr" \/ raise_for_status(rs)
               THEN Ret(p, loc[p], o, 0, 171)
               ELSE Loop(p, [loc[p] EXCEPT !.DLf = rs], o)
    /\ UNCHANGED <<client, now, files, threads, calls, lastRenew, stats>>

\* download(), lines 179-184: one chunk of at most 1 MiB is appended
StreamChunk(p) ==
    /\ pc[p] = "stream"
    /\ loc[p].DLf.pos < loc[p].DLf.len
    /\ LET r == loc[p].DLf
           n == Min(ChunkSize, r.len - r.pos)
           f == AppendBytes(files[loc[p].Id],
                            [src |-> r.src, off |-> r.off + r.pos, len |-> n])
       IN  /\ files' = [files EXCEPT ![loc[p].Id] = f]
           /\ loc' = [loc EXCEPT ![p].DLf.pos = r.pos + n, ![p].fsize = getsize(f)]
           /\ obs' = [obs EXCEPT ![p].chunks = @ + 1, ![p].written = @ + n]
    /\ UNCHANGED <<client, now, pc, threads, calls, lastRenew, outages, faultsLeft, stats>>

\* the body is exhausted after all its bytes (lines 179, 200-202)
StreamEnd(p) ==
    /\ pc[p] = "stream"
    /\ loc[p].DLf.pos = loc[p].DLf.len
    /\ AfterBody(p, [loc[p] EXCEPT !.DLf.consumed = TRUE], obs[p])
    /\ UNCHANGED <<client, now, files, threads, calls, lastRenew, outages, faultsLeft, stats>>

\* the connection drops before the body is complete: iter_content either
\* raises (kind "error") or just stops (kind "eof")
StreamFault(p, kind) ==
    /\ pc[p] = "stream"
    /\ loc[p].DLf.pos < loc[p].DLf.len
    /\ faultsLeft # 0
    /\ Spend(TRUE)
    /\ LET l == [loc[p] EXCEPT !.DLf.consumed = TRUE]
           o == [obs[p] EXCEPT !.faulted = TRUE, !.lastFault = kind]
       IN  IF kind = "error" THEN Catch(p, l, o) ELSE AfterBody(p, l, o)
    /\ UNCHANGED <<client, now, files, threads, calls, lastRenew, outages, stats>>

\* a reopen that reuses the size the file had when the call started
ReopenOffset_Stale(f, start) == getsize(start)

\* line 208: fsize = os.path.getsize(DLname), read again after the sleep
ReopenOffset(f, start) == getsize(f)

\* download(), lines 206-209 (inside the except handler, not guarded):
\* sleep, renew, re-read the file size, set the Range header of the session
RetryPrep(p) ==
    /\ pc[p] = "retry"
    /\ now' = now + SleepSecs
    /\ \E prov \in ProvOutcomes :
        LET r == renew(client, now', prov)
            f == files[loc[p].Id]
            o == [obs[p] EXCEPT !.sleeps = @ + 1]
        IN  /\ lastRenew' = RenewRec(client, now', r)
            /\ IF r.ret = "raise"
               THEN /\ client' = r.c
                    /\ Raise(p, loc[p], [o EXCEPT !.provFail = TRUE, !.faulted = TRUE], 207)
               ELSE IF ~exists(f)
               THEN \* os.path.getsize raises FileNotFoundError
                    /\ client' = r.c
                    /\ Raise(p, loc[p], o, 208)
               ELSE LET fsize == ReopenOffset(f, obs[p].startFile)
                    IN  /\ client' = [r.c EXCEPT !.session.range = fsize]
                        /\ Goto(p, [loc[p] EXCEPT !.fsize = fsize], o, "retryGet")
    /\ UNCHANGED <<files, threads, calls, outages, faultsLeft, stats>>

\* download(), lines 210-211: reopen; the status is not looked at
RetryGet(p) ==
    /\ pc[p] = "retryGet"
    /\ \E net \in NetChoices :
        LET h  == MergedHeaders(client.session, client.session)
            rs == Respond(loc[p].Id, h.range, net, "ok")
            o  == [obs[p] EXCEPT !.reqs = @ + 1,
                      !.lastReq = [kind |-> "retry", range |-> h.range, auth |-> h.auth,
                                   size |-> getsize(files[loc[p].Id])],
                      !.faulted = @ \/ net # "ok"]
        IN  /\ Outage(net)
            /\ IF net = "neterr"
               THEN Raise(p, loc[p], o, 210)
               ELSE Loop(p, [loc[p] EXCEPT !.DLf = rs], o)
    /\ UNCHANGED <<client, now, files, threads, calls, lastRenew, stats>>

Next ==
    \/ Tick
    \/ \E p \in threads, i \in Ids : Call(p, i)
    \/ \E p \in threads : Start(p)
    \/ \E p \in threads : Probe(p)
    \/ \E p \in threads : ProbeGet(p)
    \/ \E p \in threads : StreamChunk(p)
    \/ \E p \in threads : StreamEnd(p)
    \/ \E p \in threads, kind \in {"error", "eof"} : StreamFault(p, kind)
    \/ \E p \in threads : RetryPrep(p)
    \/ \E p \in threads : RetryGet(p)

Spec == Init /\ [][Next]_vars

\* a step of download() in thread p: every statement of it returns (network
\* calls have a timeout, the sleep ends), so a call that can move on does
Step(p) ==
    \/ Start(p)
    \/ Probe(p)
    \/ ProbeGet(p)
    \/ StreamChunk(p)
    \/ StreamEnd(p)
    \/ \E kind \in {"error", "eof"} : StreamFault(p, kind)
    \/ RetryPrep(p)
    \/ RetryGet(p)

SpecLive == Init /\ [][Next]_vars /\ \A p \in Threads : WF_vars(Step(p))

\* ------------------------------------------------- the renew property alone
\* the clock of a caller that only evaluates client.renew
SecSteps == {RenewAge - 1, RenewAge, RenewAge + 1}

TickSec ==
    /\ \E d \in SecSteps :
          /\ now + d <= MaxClock
          /\ now' = now + d
    /\ UNCHANGED <<client, files, pc, loc, obs, threads, calls, lastRenew, outages, faultsLeft, stats>>

\* client.renew, lines 118-125
RenewCall ==
    /\ \E prov \in ProvOutcomes :
          LET r == renew(client, now, prov)
          IN  /\ client' = r.c
              /\ lastRenew' = RenewRec(client, now, r)
    /\ UNCHANGED <<now, files, pc, loc, obs, threads, calls, outages, faultsLeft, stats>>

NextRenew == TickSec \/ RenewCall

SpecRenew == Init /\ [][NextRenew]_vars

\* ------------------------------------------- two calls on the same client
\* two threads share one SciHubClient and each calls download() once, for a
\* product no other thread asked for
InitConc ==
    InitCommon /\ threads = {1, 2} /\ faultsLeft = MaxConcFaults /\ stats = NoStats

CallConc(p, i) ==
    /\ pc[p] = "idle"
    /\ \A q \in threads \ {p} : pc[q] = "idle" \/ loc[q].Id # i
    /\ calls' = calls + 1
    /\ pc' = [pc EXCEPT ![p] = "start"]
    /\ loc' = [loc EXCEPT ![p] = [NoLoc EXCEPT !.Id = i]]
    /\ obs' = [obs EXCEPT ![p] = [NoObs EXCEPT !.startFile = files[i]]]
    /\ UNCHANGED <<client, now, files, threads, lastRenew, outages, faultsLeft, stats>>

NextConc ==
    \/ \E p \in threads, i \in Ids : CallConc(p, i)
    \/ \E p \in threads : Start(p)
    \/ \E p \in threads : Probe(p)
    \/ \E p \in threads : ProbeGet(p)
    \/ \E p \in threads : StreamChunk(p)
    \/ \E p \in threads : StreamEnd(p)
    \/ \E p \in threads, kind \in {"error", "eof"} : StreamFault(p, kind)
    \/ \E p \in threads : RetryPrep(p)
    \/ \E p \in threads : RetryGet(p)

SpecConc == InitConc /\ [][NextConc]_vars

\* ------------------------------------------- the progress statistics alone
\* line 191: str(fromtimestamp(ETA) - fromtimestamp(0))[:-3] of an ETA of
\* ms milliseconds (below one day): 'H:MM:SS.mmm', and 'H:MM' when the ETA is
\* a whole number of seconds (the text 'H:MM:SS' loses its last 3 characters)
FormatETA(ms) ==
    LET sec == ms \div 1000
    IN  IF ms % 1000 = 0
        THEN [form |-> "H:MM", h |-> sec \div 3600, m |-> (sec % 3600) \div 60,
              s |-> 0, ms |-> 0]
        ELSE [form |-> "H:MM:SS.mmm", h |-> sec \div 3600, m |-> (sec % 3600) \div 60,
              s |-> sec % 60, ms |-> ms % 1000]

\* line 172: the stream of a body of DLsize bytes starts, fsize bytes on disk
InitRate ==
    /\ InitCommon /\ threads = {1} /\ faultsLeft = NoLimit
    /\ \E i \in Ids, k \in {0, MiB} :
          stats = [NoStats EXCEPT !.phase = "streaming", !.DLsize = Total[i],
                                  !.fsize = k]

\* time.time() advances by a millisecond
ClockMs ==
    /\ stats.clock < MaxMs
    /\ stats' = [stats EXCEPT !.clock = @ + 1]
    /\ UNCHANGED <<client, now, files, pc, loc, obs, threads, calls, lastRenew,
                   outages, faultsLeft>>

\* lines 179-180: iter_content hands over the next chunk, steptime is read
ChunkArrives ==
    /\ stats.phase \in {"streaming", "reported"}
    /\ stats.fsize < stats.DLsize
    /\ stats' = [stats EXCEPT
                    !.phase = "arrived",
                    !.len = Min(ChunkSize, stats.DLsize - stats.fsize),
                    !.prev = IF stats.phase = "reported" THEN stats.NOW
                                                         ELSE stats.starttime,
                    !.steptime = stats.clock]
    /\ UNCHANGED <<client, now, files, pc, loc, obs, threads, calls, lastRenew,
                   outages, faultsLeft>>

\* lines 181-199: the chunk is written, the rate and the ETA are computed
ChunkReport ==
    /\ stats.phase = "arrived"
    /\ LET fsize  == stats.fsize + stats.len
           NOW    == stats.clock
           DLt    == NOW - stats.starttime
           DLstep == NOW - stats.steptime
       IN  stats' = [stats EXCEPT
                        !.phase = "reported",
                        !.fsize = fsize,
                        !.NOW = NOW,
                        !.DLt = DLt,
                        !.DLstep = DLstep,
                        !.DLrate = IF DLt # 0 /\ DLstep # 0
                                   THEN [num |-> stats.len, den |-> DLstep]
                                   ELSE ZeroRate,
                        !.ETA = IF DLt # 0 /\ DLstep # 0
                                THEN FormatETA(((stats.DLsize - fsize) * DLstep)
                                                   \div stats.len)
                                ELSE NoETA]
    /\ UNCHANGED <<client, now, files, pc, loc, obs, threads, calls, lastRenew,
                   outages, faultsLeft>>

NextRate == ClockMs \/ ChunkArrives \/ ChunkReport

SpecRate == InitRate /\ [][NextRate]_vars

\* ===================================================== the claims
Ended(p)     == pc[p] \in {"done", "raised"}
\* the call got a usable initial response (it is past line 156)
Declared(p)  == pc[p] \notin {"idle", "start"} /\ obs[p].retline \notin {152, 154}
Target(p)    == loc[p].Id
OnDisk(p)    == files[Target(p)]

\* C1 (as stated): a call that finds the correct first k < N bytes of its
\* target on disk and meets no failure reopens with Range bytes=k-, appends
\* exactly N-k bytes, leaves the full content and returns success at line 213.
C1_ResumeCorrectness ==
    \A p \in threads :
        (/\ Ended(p)
         /\ ~obs[p].faulted
         /\ IsPrefixOf(obs[p].startFile, Target(p))
         /\ getsize(obs[p].startFile) < Total[Target(p)])
        => /\ pc[p] = "done" /\ obs[p].ret = 1 /\ obs[p].retline = 213
           /\ obs[p].probeRange = getsize(obs[p].startFile)
           /\ obs[p].written = Total[Target(p)] - getsize(obs[p].startFile)
           /\ OnDisk(p) = Full(Target(p))

\* C2 (as stated): after a call that returned Complete and left the full
\* content on disk, the next call of the client for the same target, meeting
\* no failure, returns AlreadyComplete (line 162), reads no chunk, writes nothing.
C2_Idempotence ==
    \A p \in threads :
        (/\ Ended(p)
         /\ ~obs[p].faulted
         /\ obs[p].prevId = Target(p)
         /\ obs[p].prevLine = 213
         /\ obs[p].startFile = Full(Target(p)))
        => /\ pc[p] = "done" /\ obs[p].ret = 1 /\ obs[p].retline = 162
           /\ obs[p].chunks = 0
           /\ obs[p].written = 0

\* C3 (as stated): a call that leaves the retry loop with the file still
\* smaller than the expected size has made exactly 6 stream attempts and
\* returns Failed.
C3_RetryBound ==
    \A p \in threads :
        (/\ pc[p] = "done"
         /\ obs[p].retline \in {213, 216}
         /\ getsize(OnDisk(p)) < loc[p].DLsize)
        => /\ obs[p].attempts = 6
           /\ obs[p].ret = 0

\* C4 (as stated): whenever a call returns Complete the file is the full
\* content of its target, and every file on disk is at all times a prefix
\* of the content of its product.
C4_CompleteIsIdentical ==
    /\ \A p \in threads :
          (pc[p] = "done" /\ obs[p].ret = 1 /\ obs[p].retline = 213)
          => OnDisk(p) = Full(Target(p))
    /\ \A i \in Ids : exists(files[i]) => IsPrefixOf(files[i], i)

\* C5 (as stated): renew calls the provider exactly when
\* now >= issue + W - M, the instant the code writes tokentime + 600 s.
C5_RenewalAtOrAfterBoundary ==
    lastRenew.ret # "none"
    => (lastRenew.called <=> lastRenew.at >= lastRenew.issue + RenewAge)

\* C5 (amended): renew calls the provider exactly when now > tokentime + 600 s
\* (not at tokentime + 599 nor at tokentime + 600, but at tokentime + 601);
\* it returns True exactly when the token was replaced by one issued at the
\* time of the call, and False exactly when the provider was not called.
C5_RenewalBoundary ==
    lastRenew.ret # "none"
    => /\ lastRenew.called <=> lastRenew.at > lastRenew.issue + RenewAge
       /\ lastRenew.at = lastRenew.issue + RenewAge - 1 => lastRenew.ret = "False"
       /\ lastRenew.at = lastRenew.issue + RenewAge + 1 => lastRenew.ret # "False"
       /\ lastRenew.ret = "True" <=> client.token # lastRenew.token
       /\ lastRenew.ret = "True" => client.tokentime = lastRenew.at
       /\ lastRenew.ret = "False" <=> ~lastRenew.called
       /\ lastRenew.ret # "True" => client.tokentime = lastRenew.issue

\* a renewal made one second after the boundary
C5_Witness ==
    /\ lastRenew.ret = "True"
    /\ lastRenew.at = lastRenew.issue + RenewAge + 1
    /\ client.tokentime = lastRenew.at

\* C6 (as stated): no exception leaves download() from the stream and retry
\* phase (lines 174-216).
C6_NeverRaises ==
    \A p \in threads : ~(pc[p] = "raised" /\ obs[p].retline \in {207, 208, 210, 212})

\* C7: a call whose initial response declares a size equal to the size of
\* the existing destination file closes the response, reads no chunk, sends
\* no second request, leaves the file as it was and returns at line 162.
C7_AlreadySatisfied ==
    \A p \in threads :
        (/\ Declared(p)
         /\ pc[p] # "probe"
         /\ exists(obs[p].startFile)
         /\ getsize(obs[p].startFile) = loc[p].DLsize)
        => /\ pc[p] = "done" /\ obs[p].ret = 1 /\ obs[p].retline = 162
           /\ loc[p].DLf.closed
           /\ obs[p].chunks = 0 /\ obs[p].written = 0
           /\ obs[p].reqs = 1
           /\ obs[p].sleeps = 0
           /\ OnDisk(p) = obs[p].startFile

\* a call that found its file already at the declared size
C7_Witness ==
    \E p \in threads :
        /\ pc[p] = "done" /\ obs[p].retline = 162
        /\ exists(obs[p].startFile)
        /\ getsize(obs[p].startFile) = loc[p].DLsize
        /\ loc[p].DLf.closed

\* the initial request failed: no response, or a 4xx/5xx status
FirstRequestFailed(p) ==
    /\ pc[p] \notin {"idle", "start"}
    /\ obs[p].startStatus = 0 \/ obs[p].startStatus >= 400

C9_ProviderFailureFatal ==
    \A p \in threads :
        obs[p].provFail => pc[p] = "done" /\ obs[p].ret = 0

\* C10 (as stated): a call whose 2xx initial response lacks the file name or
\* the size header returns Failed, having written nothing.
C10_MalformedIsFailed ==
    \A p \in threads :
        (pc[p] \notin {"idle", "start"} /\ obs[p].startStatus \in 200..299
            /\ loc[p].DLf.hdr # "ok")
        => /\ pc[p] = "done" /\ obs[p].ret = 0
           /\ obs[p].written = 0

\* C11 (as stated): in a call that starts with no file, or with a file no
\* larger than the declared size, the size of the destination file on disk
\* never exceeds the declared size.
C11_SizeInvariant ==
    \A p \in threads :
        (/\ Declared(p)
         /\ ~exists(obs[p].startFile) \/ getsize(obs[p].startFile) <= loc[p].DLsize)
        => getsize(OnDisk(p)) <= loc[p].DLsize

\* C12 (as stated): two calls for two different targets, interleaved on the
\* same client, do not interfere: every reopened request carries the size of
\* the caller's own file as its offset, the declared size is the size of the
\* caller's own target, and a call that meets no failure ends as it does
\* alone: success, with the full content of its target on disk.
C12_NoInterference ==
    \A p \in threads :
        /\ obs[p].lastReq.kind \in {"probe", "retry"}
           => obs[p].lastReq.range = obs[p].lastReq.size
        /\ Declared(p) => loc[p].DLsize = Total[Target(p)]
        /\ (Ended(p) /\ ~obs[p].faulted)
           => /\ pc[p] = "done" /\ obs[p].ret = 1
              /\ OnDisk(p) = Full(Target(p))

\* file g holds everything file f holds, at the same place, and maybe more
Extends(g, f) ==
    exists(f) =>
        /\ exists(g)
        /\ getsize(g) >= getsize(f)
        /\ LET n == Len(f.data)
           IN  n > 0 =>
                /\ Len(g.data) >= n
                /\ \A k \in 1..(n - 1) : g.data[k] = f.data[k]
                /\ g.data[n].src = f.data[n].src
                /\ g.data[n].off = f.data[n].off
                /\ g.data[n].len >= f.data[n].len

\* C13: every step of the program leaves each file on disk in place and only
\* adds bytes at its end: no file is deleted or truncated, no size decreases,
\* no byte already on disk changes, whatever way a call ends.
C13_AppendOnly ==
    [][\A i \in Ids : Extends(files'[i], files[i])]_vars

\* a call that ended after adding bytes to a file it found on disk, which
\* still begins with what it held when the call started
C13_Witness ==
    \E p \in threads :
        /\ Ended(p)
        /\ exists(obs[p].startFile) /\ getsize(obs[p].startFile) > 0
        /\ obs[p].written > 0
        /\ getsize(OnDisk(p)) = getsize(obs[p].startFile) + obs[p].written
        /\ Extends(OnDisk(p), obs[p].startFile)

\* number of chunks of at most ChunkSize bytes in a body of n bytes
ChunksOf(n) == (n + ChunkSize - 1) \div ChunkSize

\* C14 (as stated): a call that finds no destination file and whose stream
\* delivers the whole declared size without interruption makes one stream
\* attempt and one request, without Range header, never sleeps, appends the
\* body in chunks of 1 MiB, leaves a file of the declared size and returns
\* success at line 213.
C14_FreshDownload ==
    \A p \in threads :
        (/\ Ended(p)
         /\ Declared(p)
         /\ ~exists(obs[p].startFile)
         /\ ~obs[p].faulted)
        => /\ pc[p] = "done" /\ obs[p].ret = 1 /\ obs[p].retline = 213
           /\ obs[p].attempts = 1 /\ loc[p].tryouts = 0
           /\ obs[p].sleeps = 0
           /\ obs[p].reqs = 1
           /\ obs[p].startRange = NoRange /\ obs[p].probeRange = NoRange
           /\ obs[p].chunks = ChunksOf(loc[p].DLsize)
           /\ obs[p].written = loc[p].DLsize
           /\ getsize(OnDisk(p)) = loc[p].DLsize

\* the time the chunk took: from the end of the chunk before it (from the
\* start of the stream for the first chunk) until it is on disk
ChunkElapsed == stats.NOW - stats.prev

\* C15 (as stated): after a chunk whose elapsed time is zero the progress
\* line reports rate 0 and ETA 'N/A'; after a chunk whose elapsed time is not
\* zero the rate is the bytes of the chunk over that time and the ETA is the
\* bytes still missing over that rate.
C15_RateETA ==
    stats.phase = "reported" =>
        IF ChunkElapsed = 0
        THEN stats.DLrate = ZeroRate /\ stats.ETA = NoETA
        ELSE /\ stats.DLrate.num * ChunkElapsed = stats.len * stats.DLrate.den
             /\ stats.ETA = FormatETA(((stats.DLsize - stats.fsize) * ChunkElapsed)
                                         \div stats.len)

\* C16 (as stated): the initial request of every call carries no Range
\* header, whatever calls the client made before; only reopened requests
\* carry one.
C16_InitialRequestNoRange ==
    \A p \in threads :
        /\ obs[p].reqs >= 1 => obs[p].startRange = NoRange
        /\ obs[p].lastReq.kind = "start" => obs[p].lastReq.range = NoRange

\* C17: every reopened request (after the size test of line 160 and after
\* each sleep) carries as Range offset the size the destination file has on
\* disk when the request is sent, the bytes of all earlier stream attempts
\* included.
C17_ReopenOffsetIsCurrentSize ==
    \A p \in threads :
        /\ obs[p].lastReq.kind \in {"probe", "retry"}
           => obs[p].lastReq.range = obs[p].lastReq.size
        /\ pc[p] \in {"probeGet", "retryGet"}
           => /\ client.session.range = getsize(OnDisk(p))
              /\ client.session.range = getsize(obs[p].startFile) + obs[p].written

\* a reopen after a sleep that asked for the bytes behind those that earlier
\* stream attempts of the call had written
C17_Witness ==
    \E p \in threads :
        /\ obs[p].lastReq.kind = "retry"
        /\ obs[p].written > 0
        /\ obs[p].lastReq.range = obs[p].lastReq.size
        /\ obs[p].lastReq.range > getsize(obs[p].startFile)

\* the token the client holds after the last evaluation of renew
TokenAfterRenew ==
    IF lastRenew.ret = "True" THEN lastRenew.token + 1 ELSE lastRenew.token

\* what C18 asks of one step of thread p
C18_Step(p) ==
    LET requested == obs'[p].reqs = obs[p].reqs + 1
        current   == /\ lastRenew'.ret \in {"True", "False"}
                     /\ lastRenew'.called <=> lastRenew'.ret = "True"
                     /\ client'.token = TokenAfterRenew'
                     /\ client'.headers.auth = client'.token
                     /\ client'.session.auth = client'.token
    IN  /\ (pc[p] = "start" /\ pc'[p] # "start") =>
            /\ lastRenew'.at = now
            /\ requested => current /\ obs'[p].lastReq.auth = client'.token
            /\ ~requested => lastRenew'.ret = "raise"
        /\ (pc[p] = "probe" /\ pc'[p] = "probeGet") =>
            /\ lastRenew'.at = now
            /\ current
        /\ (pc[p] = "retry" /\ pc'[p] = "retryGet") =>
            /\ now' = now + SleepSecs
            /\ lastRenew'.at = now'
            /\ current
        /\ (pc[p] \in {"probeGet", "retryGet"} /\ pc'[p] # pc[p]) =>
            /\ requested
            /\ client' = client /\ lastRenew' = lastRenew
            /\ current
            /\ obs'[p].lastReq.auth = client.token
        /\ requested => pc[p] \in {"start", "probeGet", "retryGet"}

\* C18: renew is evaluated in the step before each request of download()
\* (initial request, reopen after the size test, reopen after each 30 s
\* sleep), and the request carries the token the client holds after that
\* evaluation: the new one when renew replaced it.
C18_RenewalPrecedesRequests ==
    [][\A p \in threads : C18_Step(p)]_vars

\* a reopen after a sleep during which the token came of age: it carried
\* the token renew had just fetched
C18_Witness ==
    \E p \in threads :
        /\ obs[p].lastReq.kind = "retry"
        /\ lastRenew.ret = "True"
        /\ lastRenew.at = client.tokentime
        /\ obs[p].lastReq.auth = lastRenew.token + 1
        /\ obs[p].lastReq.auth = client.token

\* requests sent after a sleep
RetryReopens(p) == obs[p].reqs - 1 - (IF obs[p].probeRange # NoRange THEN 1 ELSE 0)

\* C19 (as stated, for a call whose initial request carried no Range
\* header): a call that left the stream phase has slept as often as it
\* reopened the connection after a failed attempt, once per tryout, and a
\* stream attempt has read the connection of every reopen, the last one
\* included: the retry stream attempts are as many as the sleeps.
C19_RetryWaitOrdering ==
    \A p \in threads :
        (/\ pc[p] = "done" /\ obs[p].retline \in {213, 216}
         /\ obs[p].startRange = NoRange)
        => /\ obs[p].sleeps = RetryReopens(p)
           /\ obs[p].sleeps = loc[p].tryouts
           /\ obs[p].sleeps <= MaxTryouts
           /\ obs[p].sleeps > 0 => loc[p].DLf.consumed

\* C20: a call that returns after the stream phase (lines 213, 216) returns
\* success exactly when the size of the destination file on disk equals the
\* declared size, and Failed otherwise, also when the tryouts are used up.
C20_ResultAgreesWithDisk ==
    \A p \in threads :
        (pc[p] = "done" /\ obs[p].retline \in {213, 216})
        => /\ obs[p].ret \in {0, 1}
           /\ obs[p].ret = 1 <=> getsize(OnDisk(p)) = loc[p].DLsize
           /\ obs[p].ret = 1 <=> obs[p].retline = 213

\* a call that used up its tryouts and still returned success, its file
\* having the declared size
C20_Witness ==
    \E p \in threads :
        /\ pc[p] = "done" /\ obs[p].retline = 213 /\ obs[p].ret = 1
        /\ loc[p].tryouts = MaxTryouts
        /\ getsize(OnDisk(p)) = loc[p].DLsize

\* thread p is where a stream that ended early without an error left it
AfterSilentEnd(p) == pc[p] = "retry" /\ obs[p].lastFault = "eof"

\* what C21 asks of one step of thread p
C21_Step(p) ==
    /\ (/\ pc[p] = "stream" /\ pc'[p] # "stream"
        /\ obs'[p].lastFault = "eof"
        /\ loc[p].DLf.pos < loc[p].DLf.len
        /\ ~exists(OnDisk(p)) \/ getsize(OnDisk(p)) < loc[p].DLsize)
       => /\ pc'[p] = "retry"
          /\ loc'[p].tryouts = loc[p].tryouts + 1
          /\ files' = files
    /\ (AfterSilentEnd(p) /\ pc'[p] # "retry")
       => /\ now' = now + SleepSecs
          /\ pc'[p] = "retryGet"
          /\ client'.session.range = getsize(OnDisk(p))
          /\ obs'[p].sleeps = obs[p].sleeps + 1
    /\ (pc[p] = "retryGet" /\ obs[p].lastFault = "eof" /\ pc'[p] # "retryGet")
       => /\ obs'[p].lastReq.kind = "retry"
          /\ obs'[p].lastReq.range = getsize(OnDisk(p))
          /\ pc'[p] # "raised"

\* C21 (as stated): a stream that ends early without an error, the file
\* being smaller than the declared size (or missing), counts as one tryout,
\* is followed by the sleep of 30 s and by a reopen whose Range offset is the
\* size of the file on disk, and does not end the call with success.
C21_SilentEndIsRetried ==
    [][\A p \in threads : C21_Step(p)]_vars

\* C22 (as stated): every call of download() that entered the stream and
\* retry loop ends with a result, whatever the server answers and however
\* the streams fail.
C22_TerminatesWithResult ==
    \A p \in Threads : (pc[p] = "stream") ~> (pc[p] = "done")

\* C23 (as stated): no byte of the body of an error response, of a reopened
\* request included, is ever in a file on disk.
C23_OnlySuccessBodiesWritten ==
    \A i \in Ids : \A k \in 1..Len(files[i].data) :
        files[i].data[k].src # "err"

====
